---- MODULE Spec2Model ----
(***************************************************************************)
(* Qisclick: a linear provisioning script (src/Qisclick.py).               *)
(*                                                                         *)
(* A run of main() is modelled as a record (the "run state") holding the   *)
(* program position, the part of the filesystem the script owns, the       *)
(* child process it is blocked on, the console output so far and the       *)
(* process exit code.  Every step of main() is an operator from a run      *)
(* state and one input of the environment (what the filesystem or the      *)
(* child process did) to the next run state; the actions of the            *)
(* specifications apply these operators to the variables.                  *)
(*                                                                         *)
(* A blocking subprocess.run() call is two steps: the launch (which may    *)
(* fail without any child having run) and the return once the child has    *)
(* exited.                                                                 *)
(***************************************************************************)
EXTENDS Integers, Sequences, FiniteSets, TLC

VARIABLES run, runA, runB

vars == <<run, runA, runB>>

(***************************************************************************)
(* Program data                                                            *)
(***************************************************************************)

\* src/Qisclick.py:121-126
packages_to_install == <<"qiskit", "qiskit-aer", "qiskit-ibm-runtime", "qiskit-terra">>

\* platform.system() as far as the script distinguishes it
Platforms == {"Windows", "Other"}

\* src/Qisclick.py:10 (the directory name; the script directory is left out)
venv_dir == "qisclick_env"

\* src/Qisclick.py:104-109
pip_path(plat) ==
    IF plat = "Windows" THEN venv_dir \o "/Scripts/pip.exe"
                        ELSE venv_dir \o "/bin/pip"

python_path(plat) ==
    IF plat = "Windows" THEN venv_dir \o "/Scripts/python.exe"
                        ELSE venv_dir \o "/bin/python"

\* The command lines of the script, joined with blanks as line 41 prints them.
PurgeCmd == "pip cache purge"

VenvCmd == "python -m venv " \o venv_dir

UpgradeCmd(plat) == pip_path(plat) \o " install --upgrade pip"

InstallCmd(plat, package) == pip_path(plat) \o " install " \o package

VerifyCmd(plat) == python_path(plat) \o " -c qiskit_test_script"

InteractiveCmd(plat) == python_path(plat)

\* src/Qisclick.py:206-209
ActivateHint(plat) ==
    IF plat = "Windows" THEN venv_dir \o "/Scripts/activate.bat"
                        ELSE "source " \o venv_dir \o "/bin/activate"

\* A printed line: what is printed and the value formatted into it.
Msg(tag, arg) == <<tag, arg>>

NoChild == ""

Running == -1

(***************************************************************************)
(* Inputs of the environment                                               *)
(***************************************************************************)

\* What starting a child can do: it starts, the executable is not there
\* (FileNotFoundError), or the start fails otherwise (another exception).
LaunchOutcomes == {"spawned", "notfound", "oserror"}

\* How a started child ends.
ExitOutcomes == {"exit0", "nonzero"}

Range(f) == {f[k] : k \in DOMAIN f}

PrefixSet(k) == {packages_to_install[j] : j \in 1..k}

\* What the environment directory can hold when a run starts: what an
\* earlier run left (a prefix of the package list), possibly with something
\* the user installed in the interactive session.
PriorEnvs ==
    {PrefixSet(k) : k \in 0..Len(packages_to_install)}
        \cup {PrefixSet(Len(packages_to_install)) \cup {"numpy"}}

(***************************************************************************)
(* Command Runner                                                          *)
(***************************************************************************)

\* subprocess.run(command, check=check, ...): "returned" or the class of
\* the exception it raises.
subprocess_run(check, o) ==
    CASE o = "notfound" -> "FileNotFoundError"
      [] o = "oserror"  -> "Exception"
      [] o = "nonzero" /\ check -> "CalledProcessError"
      [] OTHER -> "returned"

\* run_command without its last handler (except Exception).
run_command_no_catch_all(command, check, capture_output, o) ==
    LET r == subprocess_run(check, o)
        captured == IF capture_output THEN <<Msg("child output", command)>> ELSE <<>>
    IN CASE r = "returned" ->
              [ret |-> TRUE, raised |-> "none", printed |-> captured]
         [] r = "CalledProcessError" ->
              [ret |-> FALSE, raised |-> "none",
               printed |-> <<Msg("Error executing command", command)>>
                            \o captured \o <<Msg("Error details", command)>>]
         [] r = "FileNotFoundError" ->
              [ret |-> FALSE, raised |-> "none",
               printed |-> <<Msg("Command not found", "")>>]
         [] OTHER ->
              [ret |-> FALSE, raised |-> r, printed |-> <<>>]

\* run_command returning what the claimed contract says: True whenever
\* check is disabled.
run_command_true_unless_check(command, check, capture_output, o) ==
    LET r == subprocess_run(check, o)
    IN [ret |-> (o = "exit0" \/ ~check), raised |-> "none",
        printed |-> IF r = "returned" THEN <<>> ELSE <<Msg("Error executing command", command)>>]

\* run_command(command, check=..., capture_output=...) when the invocation
\* has outcome o: the value returned, the exception that leaves the
\* function ("none": it returns) and the lines printed.  The text of the
\* child's streams is one line, printed only when captured.
run_command(command, check, capture_output, o) ==
    LET r == subprocess_run(check, o)
        captured == IF capture_output THEN <<Msg("child output", command)>> ELSE <<>>
    IN CASE r = "returned" ->
              [ret |-> TRUE, raised |-> "none", printed |-> captured]
         [] r = "CalledProcessError" ->
              [ret |-> FALSE, raised |-> "none",
               printed |-> <<Msg("Error executing command", command)>>
                            \o captured \o <<Msg("Error details", command)>>]
         [] r = "FileNotFoundError" ->
              [ret |-> FALSE, raised |-> "none",
               printed |-> <<Msg("Command not found", "")>>]
         [] OTHER ->
              [ret |-> FALSE, raised |-> "none",
               printed |-> <<Msg("An unexpected error occurred", "")>>]

(***************************************************************************)
(* Run states                                                              *)
(***************************************************************************)

\* The state main() starts in: plat is the platform, dirExists and env the
\* environment directory and the packages in it.
StartState(plat, dirExists, env) ==
    [pc        |-> "teardown",
     plat      |-> plat,
     dirExists |-> dirExists,
     env       |-> env,
     i         |-> 1,
     child     |-> NoChild,
     exitCode  |-> Running,
     out       |-> <<Msg("Qisclick by incredibit", "")>>,
     cmds      |-> <<>>,
     calls     |-> <<>>,
     hist      |-> <<>>]

\* The name of the step a run is at, with the package for an install.
StepKey(s) ==
    IF s.pc \in {"install", "install_wait"}
    THEN s.pc \o " " \o packages_to_install[s.i]
    ELSE s.pc

\* The environment's input o is consumed at the current step.
Consume(s, o) == [s EXCEPT !.hist = Append(@, <<StepKey(s), o>>)]

Emit(s, msgs) == [s EXCEPT !.out = @ \o msgs]

\* sys.exit(0) in place of sys.exit(1).
Exit1_zero(s, msgs) ==
    [s EXCEPT !.out = @ \o msgs, !.pc = "done", !.exitCode = 0]

\* print(...) then sys.exit(1)
Exit1(s, msgs) ==
    [s EXCEPT !.out = @ \o msgs, !.pc = "done", !.exitCode = 1]

\* An exception leaves main(): the interpreter prints the traceback and
\* the process ends with status 1.
Crash(s, exc) ==
    [s EXCEPT !.out = Append(@, Msg("Traceback", exc)), !.pc = "done", !.exitCode = 1]

\* run_command(command, ...) is called and comes back with result r.
Called(s, command, check, o, r) ==
    [s EXCEPT !.out = @ \o r.printed,
              !.calls = Append(@, [command |-> command, check |-> check,
                                   outcome |-> o, ret |-> r.ret,
                                   raised |-> r.raised, printed |-> r.printed])]

\* The child of the current step is started.
Spawn(s, command, waitpc) == [s EXCEPT !.child = command, !.pc = waitpc]

(***************************************************************************)
(* Provisioning Sequencer: the steps of main()                             *)
(***************************************************************************)

\* Step 1 whose skip branch goes past the cache purge.
Teardown_skip_to_create(s, o) ==
    LET s0 == Consume(s, o)
    IN IF s.dirExists
       THEN IF o = "removed"
            THEN [Emit(s0, <<Msg("Removing existing virtual environment", venv_dir),
                             Msg("Old virtual environment removed successfully.", "")>>)
                    EXCEPT !.dirExists = FALSE, !.env = {}, !.pc = "purge"]
            ELSE Exit1(Emit(s0, <<Msg("Removing existing virtual environment", venv_dir)>>),
                       <<Msg("Error removing old virtual environment", o)>>)
       ELSE [Emit(s0, <<Msg("No existing virtual environment found, skipping removal.", venv_dir)>>)
               EXCEPT !.pc = "create"]

\* Step 1 with the removal left out.
Teardown_no_removal(s, o) ==
    LET s0 == Consume(s, o)
    IN IF s.dirExists
       THEN IF o = "removed"
            THEN [Emit(s0, <<Msg("Removing existing virtual environment", venv_dir),
                             Msg("Old virtual environment removed successfully.", "")>>)
                    EXCEPT !.pc = "purge"]
            ELSE Exit1(Emit(s0, <<Msg("Removing existing virtual environment", venv_dir)>>),
                       <<Msg("Error removing old virtual environment", o)>>)
       ELSE [Emit(s0, <<Msg("No existing virtual environment found, skipping removal.", venv_dir)>>)
               EXCEPT !.pc = "purge"]

\* Step 1 with the sys.exit(1) of the OSError handler left out.
Teardown_no_exit(s, o) ==
    LET s0 == Consume(s, o)
    IN IF s.dirExists
       THEN IF o = "removed"
            THEN [Emit(s0, <<Msg("Removing existing virtual environment", venv_dir),
                             Msg("Old virtual environment removed successfully.", "")>>)
                    EXCEPT !.dirExists = FALSE, !.env = {}, !.pc = "purge"]
            ELSE [Emit(s0, <<Msg("Removing existing virtual environment", venv_dir),
                             Msg("Error removing old virtual environment", o)>>)
                    EXCEPT !.pc = "purge"]
       ELSE [Emit(s0, <<Msg("No existing virtual environment found, skipping removal.", venv_dir)>>)
               EXCEPT !.pc = "purge"]

\* Step 1: o is "removed" or "oserror" (what shutil.rmtree did) when the
\* directory exists, "absent" when it does not.
Teardown(s, o) ==
    LET s0 == Consume(s, o)
    IN IF s.dirExists
       THEN IF o = "removed"
            THEN [Emit(s0, <<Msg("Removing existing virtual environment", venv_dir),
                             Msg("Old virtual environment removed successfully.", "")>>)
                    EXCEPT !.dirExists = FALSE, !.env = {}, !.pc = "purge"]
            ELSE Exit1(Emit(s0, <<Msg("Removing existing virtual environment", venv_dir)>>),
                       <<Msg("Error removing old virtual environment", o)>>)
       ELSE [Emit(s0, <<Msg("No existing virtual environment found, skipping removal.", venv_dir)>>)
               EXCEPT !.pc = "purge"]

\* Step 2 treating a failed purge like every other failed step.
PurgeReturn_fatal(s, o) ==
    LET r  == run_command(PurgeCmd, FALSE, FALSE, o)
        s1 == Called(s, PurgeCmd, FALSE, o, r)
    IN IF ~r.ret
       THEN Exit1(s1, <<Msg("Warning: Could not purge pip cache.", "")>>)
       ELSE [Emit(s1, <<Msg("Pip cache purged successfully (or no cache to purge).", "")>>)
               EXCEPT !.pc = "create"]

\* Step 2, after run_command([system_pip, 'cache', 'purge'], check=False,
\* capture_output=False) has come back.
PurgeReturn(s, o) ==
    LET r  == run_command(PurgeCmd, FALSE, FALSE, o)
        s1 == Called(s, PurgeCmd, FALSE, o, r)
    IN IF r.raised # "none" THEN Crash(s1, r.raised)
       ELSE IF ~r.ret
       THEN [Emit(s1, <<Msg("Warning: Could not purge pip cache.", "")>>) EXCEPT !.pc = "create"]
       ELSE [Emit(s1, <<Msg("Pip cache purged successfully (or no cache to purge).", "")>>)
               EXCEPT !.pc = "create"]

\* Step 2 up to the start of the child: o is "nopip" when shutil.which
\* finds no pip, and otherwise what starting the purge did.
PurgeStart(s, o) ==
    LET s0 == Emit(Consume(s, o), <<Msg("Attempting to clear pip cache for Qiskit residues...", "")>>)
    IN IF o = "nopip"
       THEN [Emit(s0, <<Msg("Warning: 'pip' command not found in system PATH.", "")>>)
               EXCEPT !.pc = "create"]
       ELSE LET s1 == [s0 EXCEPT !.cmds = Append(@, PurgeCmd)]
            IN IF o = "spawned" THEN Spawn(s1, PurgeCmd, "purge_wait")
                                ELSE PurgeReturn(s1, o)

\* Step 2, the purge child exits with o.
PurgeWait(s, o) ==
    PurgeReturn([Consume(s, o) EXCEPT !.child = NoChild], o)

\* Step 3 trying the creation a second time when the first try failed.
CreateReturn_retry_once(s, o) ==
    LET r  == run_command(VenvCmd, TRUE, TRUE, o)
        s1 == Called(s, VenvCmd, TRUE, o, r)
    IN IF ~r.ret
       THEN IF Len(s.cmds) = Len(SelectSeq(s.cmds, LAMBDA c : c # VenvCmd)) + 1
            THEN [s1 EXCEPT !.pc = "create"]
            ELSE Exit1(s1, <<Msg("Failed to create virtual environment. Exiting.", "")>>)
       ELSE [Emit(s1, <<Msg("New virtual environment created successfully.", "")>>)
               EXCEPT !.pc = "upgrade"]

\* Step 3, after run_command([sys.executable, '-m', 'venv', venv_dir]).
CreateReturn(s, o) ==
    LET r  == run_command(VenvCmd, TRUE, TRUE, o)
        s1 == Called(s, VenvCmd, TRUE, o, r)
    IN IF r.raised # "none" THEN Crash(s1, r.raised)
       ELSE IF ~r.ret
       THEN Exit1(s1, <<Msg("Failed to create virtual environment. Exiting.", "")>>)
       ELSE [Emit(s1, <<Msg("New virtual environment created successfully.", "")>>)
               EXCEPT !.pc = "upgrade"]

\* Step 3 starting the child without waiting for it (Popen in place of
\* run): main() goes on to step 4 while the venv child is running.
CreateStart_no_wait(s, o) ==
    LET s1 == [Emit(Consume(s, o), <<Msg("Creating a new virtual environment", venv_dir)>>)
                 EXCEPT !.cmds = Append(@, VenvCmd)]
    IN IF o = "spawned" THEN [s1 EXCEPT !.child = VenvCmd, !.dirExists = TRUE, !.pc = "upgrade"]
                        ELSE Exit1(s1, <<Msg("Failed to create virtual environment. Exiting.", "")>>)

CreateStart(s, o) ==
    LET s1 == [Emit(Consume(s, o), <<Msg("Creating a new virtual environment", venv_dir)>>)
                 EXCEPT !.cmds = Append(@, VenvCmd)]
    IN IF o = "spawned" THEN Spawn(s1, VenvCmd, "create_wait")
                        ELSE CreateReturn(s1, o)

\* The venv child exits: on exit 0 the directory exists; venv is run
\* without --clear, so it keeps what a directory already there holds.
CreateWait(s, o) ==
    CreateReturn([Consume(s, o) EXCEPT !.child = NoChild,
                                       !.dirExists = IF o = "exit0" THEN TRUE ELSE @],
                 o)

\* Step 4, after run_command([pip_path, 'install', '--upgrade', 'pip']).
UpgradeReturn(s, o) ==
    LET r  == run_command(UpgradeCmd(s.plat), TRUE, TRUE, o)
        s1 == Called(s, UpgradeCmd(s.plat), TRUE, o, r)
    IN IF r.raised # "none" THEN Crash(s1, r.raised)
       ELSE IF ~r.ret
       THEN Exit1(s1, <<Msg("Failed to upgrade pip. Exiting.", "")>>)
       ELSE [Emit(s1, <<Msg("Pip upgraded successfully.", ""),
                        Msg("Installing Qiskit and its components", "")>>)
               EXCEPT !.pc = "install", !.i = 1]

UpgradeStart(s, o) ==
    LET s1 == [Emit(Consume(s, o), <<Msg("Upgrading pip in the new virtual environment...", "")>>)
                 EXCEPT !.cmds = Append(@, UpgradeCmd(s.plat))]
    IN IF o = "spawned" THEN Spawn(s1, UpgradeCmd(s.plat), "upgrade_wait")
                        ELSE UpgradeReturn(s1, o)

UpgradeWait(s, o) ==
    UpgradeReturn([Consume(s, o) EXCEPT !.child = NoChild], o)

\* Step 5 with the sys.exit(1) after a failed install left out: the loop
\* goes on to the next package.
InstallReturn_continue(s, o) ==
    LET package == packages_to_install[s.i]
        r  == run_command(InstallCmd(s.plat, package), TRUE, TRUE, o)
        s1 == Called(s, InstallCmd(s.plat, package), TRUE, o, r)
        s2 == IF r.ret THEN Emit(s1, <<Msg("installed.", package)>>)
                       ELSE Emit(s1, <<Msg("Error installing", package)>>)
    IN IF s.i < Len(packages_to_install)
       THEN [s2 EXCEPT !.i = @ + 1]
       ELSE [Emit(s2, <<Msg("All specified Qiskit components installed successfully!", ""),
                        Msg("Running a simple Qiskit test to verify installation...", "")>>)
               EXCEPT !.pc = "verify"]

\* Step 5, the body of the loop after run_command([pip_path, 'install',
\* package]) for package number s.i.
InstallReturn(s, o) ==
    LET package == packages_to_install[s.i]
        r  == run_command(InstallCmd(s.plat, package), TRUE, TRUE, o)
        s1 == Called(s, InstallCmd(s.plat, package), TRUE, o, r)
    IN IF r.raised # "none" THEN Crash(s1, r.raised)
       ELSE IF ~r.ret
       THEN Exit1(s1, <<Msg("Error installing", package)>>)
       ELSE LET s2 == Emit(s1, <<Msg("installed.", package)>>)
            IN IF s.i < Len(packages_to_install)
               THEN [s2 EXCEPT !.pc = "install", !.i = @ + 1]
               ELSE [Emit(s2, <<Msg("All specified Qiskit components installed successfully!", ""),
                                Msg("Running a simple Qiskit test to verify installation...", "")>>)
                       EXCEPT !.pc = "verify"]

InstallStart(s, o) ==
    LET package == packages_to_install[s.i]
        s1 == [Emit(Consume(s, o), <<Msg("Installing", package)>>)
                 EXCEPT !.cmds = Append(@, InstallCmd(s.plat, package))]
    IN IF o = "spawned" THEN Spawn(s1, InstallCmd(s.plat, package), "install_wait")
                        ELSE InstallReturn(s1, o)

\* The pip child exits: on exit 0 the package is in the environment.
InstallWait(s, o) ==
    InstallReturn([Consume(s, o) EXCEPT !.child = NoChild,
                       !.env = IF o = "exit0" THEN @ \cup {packages_to_install[s.i]} ELSE @],
                  o)

\* Step 6, after run_command([python_path, '-c', qiskit_test_script],
\* capture_output=False).
VerifyReturn(s, o) ==
    LET r  == run_command(VerifyCmd(s.plat), TRUE, FALSE, o)
        s1 == Called(s, VerifyCmd(s.plat), TRUE, o, r)
    IN IF r.raised # "none" THEN Crash(s1, r.raised)
       ELSE IF ~r.ret
       THEN Exit1(s1, <<Msg("Qiskit test failed. Please review the output above for errors.", "")>>)
       ELSE [Emit(s1, <<Msg("Qiskit test completed successfully!", ""),
                        Msg("Installation and test complete!", ""),
                        Msg("Launching an interactive Python interpreter", "")>>)
               EXCEPT !.pc = "handoff"]

VerifyStart(s, o) ==
    LET s1 == [Consume(s, o) EXCEPT !.cmds = Append(@, VerifyCmd(s.plat))]
    IN IF o = "spawned" THEN Spawn(s1, VerifyCmd(s.plat), "verify_wait")
                        ELSE VerifyReturn(s1, o)

VerifyWait(s, o) ==
    VerifyReturn([Consume(s, o) EXCEPT !.child = NoChild], o)

\* Step 7 with the sys.exit(1) of the handler left out.
HandoffStart_no_exit(s, o) ==
    LET s1 == [Consume(s, o) EXCEPT !.cmds = Append(@, InteractiveCmd(s.plat))]
    IN IF o = "spawned" THEN Spawn(s1, InteractiveCmd(s.plat), "handoff_wait")
       ELSE [Emit(s1, <<Msg("Error launching interactive Python interpreter", o)>>)
               EXCEPT !.pc = "guidance"]

\* Step 7: subprocess.run(python_path, ...) inside try/except Exception;
\* every exception of the launch is caught by the one handler.
HandoffStart(s, o) ==
    LET s1 == [Consume(s, o) EXCEPT !.cmds = Append(@, InteractiveCmd(s.plat))]
    IN IF o = "spawned" THEN Spawn(s1, InteractiveCmd(s.plat), "handoff_wait")
       ELSE Exit1(s1, <<Msg("Error launching interactive Python interpreter", o)>>)

\* Step 7 reading the return code of the session (check=True).
HandoffWait_checked(s, o) ==
    IF o = "exit0"
    THEN [Consume(s, o) EXCEPT !.child = NoChild, !.pc = "guidance"]
    ELSE Exit1([Consume(s, o) EXCEPT !.child = NoChild],
               <<Msg("Error launching interactive Python interpreter", o)>>)

\* The interactive session ends with o; the result of subprocess.run is
\* dropped (no check=True, the return code is not read).
HandoffWait(s, o) ==
    [Consume(s, o) EXCEPT !.child = NoChild, !.pc = "guidance"]

\* Step 8 never returning from main().
Guidance_hangs(s, o) == s

\* Step 8: the guidance is printed, main() returns and the process ends
\* with status 0.
Guidance(s, o) ==
    [Emit(Consume(s, o), <<Msg("Exited 'qisclick' interactive Python interpreter.", ""),
                           Msg("You can activate it again anytime by running:", ""),
                           Msg("activate", ActivateHint(s.plat))>>)
       EXCEPT !.pc = "done", !.exitCode = 0]

\* The inputs the environment can give a run at state s.
Inputs(s) ==
    CASE s.pc = "teardown" -> IF s.dirExists THEN {"removed", "oserror"} ELSE {"absent"}
      [] s.pc = "purge" -> LaunchOutcomes \cup {"nopip"}
      [] s.pc \in {"create", "upgrade", "install", "verify", "handoff"} -> LaunchOutcomes
      [] s.pc \in {"purge_wait", "create_wait", "upgrade_wait", "install_wait",
                   "verify_wait", "handoff_wait"} -> ExitOutcomes
      [] s.pc = "guidance" -> {"none"}
      [] OTHER -> {}

\* One step of main() from state s on input o.
MainStep(s, o) ==
    CASE s.pc = "teardown"     -> Teardown(s, o)
      [] s.pc = "purge"        -> PurgeStart(s, o)
      [] s.pc = "purge_wait"   -> PurgeWait(s, o)
      [] s.pc = "create"       -> CreateStart(s, o)
      [] s.pc = "create_wait"  -> CreateWait(s, o)
      [] s.pc = "upgrade"      -> UpgradeStart(s, o)
      [] s.pc = "upgrade_wait" -> UpgradeWait(s, o)
      [] s.pc = "install"      -> InstallStart(s, o)
      [] s.pc = "install_wait" -> InstallWait(s, o)
      [] s.pc = "verify"       -> VerifyStart(s, o)
      [] s.pc = "verify_wait"  -> VerifyWait(s, o)
      [] s.pc = "handoff"      -> HandoffStart(s, o)
      [] s.pc = "handoff_wait" -> HandoffWait(s, o)
      [] s.pc = "guidance"     -> Guidance(s, o)
      [] OTHER -> s

(***************************************************************************)
(* Spec: one run of the script                                             *)
(***************************************************************************)

Idle == StartState("Other", FALSE, {})

Init ==
    /\ \E plat \in Platforms :
          \/ run = StartState(plat, FALSE, {})
          \/ \E env \in PriorEnvs : run = StartState(plat, TRUE, env)
    /\ runA = Idle
    /\ runB = Idle

At(p) == run.pc = p

Step(o) == run' = MainStep(run, o) /\ UNCHANGED <<runA, runB>>

DoTeardown     == At("teardown")     /\ \E o \in Inputs(run) : Step(o)
DoPurgeStart   == At("purge")        /\ \E o \in Inputs(run) : Step(o)
DoPurgeWait    == At("purge_wait")   /\ \E o \in Inputs(run) : Step(o)
DoCreateStart  == At("create")       /\ \E o \in Inputs(run) : Step(o)
DoCreateWait   == At("create_wait")  /\ \E o \in Inputs(run) : Step(o)
DoUpgradeStart == At("upgrade")      /\ \E o \in Inputs(run) : Step(o)
DoUpgradeWait  == At("upgrade_wait") /\ \E o \in Inputs(run) : Step(o)
DoInstallStart == At("install")      /\ \E o \in Inputs(run) : Step(o)
DoInstallWait  == At("install_wait") /\ \E o \in Inputs(run) : Step(o)
DoVerifyStart  == At("verify")       /\ \E o \in Inputs(run) : Step(o)
DoVerifyWait   == At("verify_wait")  /\ \E o \in Inputs(run) : Step(o)
DoHandoffStart == At("handoff")      /\ \E o \in Inputs(run) : Step(o)
DoHandoffWait  == At("handoff_wait") /\ \E o \in Inputs(run) : Step(o)
DoGuidance     == At("guidance")     /\ \E o \in Inputs(run) : Step(o)

Next ==
    \/ DoTeardown
    \/ DoPurgeStart
    \/ DoPurgeWait
    \/ DoCreateStart
    \/ DoCreateWait
    \/ DoUpgradeStart
    \/ DoUpgradeWait
    \/ DoInstallStart
    \/ DoInstallWait
    \/ DoVerifyStart
    \/ DoVerifyWait
    \/ DoHandoffStart
    \/ DoHandoffWait
    \/ DoGuidance

Spec == Init /\ [][Next]_vars

(***************************************************************************)
(* SpecPair: two runs on the same platform fed the same command outcomes, *)
(* runA starting with the environment directory present and runB with it  *)
(* absent.  Each run takes its steps on its own; an input one run has     *)
(* consumed at a step is the input the other gets at that step.  The      *)
(* outcome of the removal (step 1) is no command outcome and is free.     *)
(***************************************************************************)

InitPair ==
    /\ \E plat \in Platforms :
          /\ \E env \in PriorEnvs : runA = StartState(plat, TRUE, env)
          /\ runB = StartState(plat, FALSE, {})
    /\ run = Idle

\* Input o at the step s is at agrees with what run t was given there.
Agrees(s, o, t) ==
    \/ s.pc = "teardown"
    \/ \A h \in Range(t.hist) : h[1] = StepKey(s) => h[2] = o

PairStepA ==
    /\ \E o \in Inputs(runA) : Agrees(runA, o, runB) /\ runA' = MainStep(runA, o)
    /\ UNCHANGED <<run, runB>>

PairStepB ==
    /\ \E o \in Inputs(runB) : Agrees(runB, o, runA) /\ runB' = MainStep(runB, o)
    /\ UNCHANGED <<run, runA>>

NextPair == PairStepA \/ PairStepB

SpecPair == InitPair /\ [][NextPair]_vars

(***************************************************************************)
(* Vocabulary of the properties                                            *)
(***************************************************************************)

Failures == {"nonzero", "notfound", "oserror"}

Last(q) == q[Len(q)]

IsPrefix(p, q) == Len(p) <= Len(q) /\ \A k \in 1..Len(p) : p[k] = q[k]

InstallCmdSet(plat) ==
    {InstallCmd(plat, packages_to_install[k]) : k \in 1..Len(packages_to_install)}

\* The install commands run so far, in the order they were invoked.
InstallsAttempted ==
    SelectSeq(run.cmds, LAMBDA c : c \in InstallCmdSet(run.plat))

\* The install of package number k failed (at its launch or by its exit).
InstallFailed(k) ==
    \E h \in Range(run.hist) :
        /\ h[1] \in {"install " \o packages_to_install[k],
                     "install_wait " \o packages_to_install[k]}
        /\ h[2] \in Failures

PurgeSteps == {"purge", "purge_wait"}

\* Entry h of a run's history is the failure of a step other than the
\* cache purge: the removal, or a command that could not be started or
\* that exited non-zero.  The interactive session fails by not starting;
\* how the session ends is up to the user.
StepFailure(h) ==
    /\ h[1] \notin PurgeSteps
    /\ \/ h[2] \in {"notfound", "oserror"}
       \/ h[2] = "nonzero" /\ h[1] # "handoff_wait"

TeardownFailed == Len(run.hist) >= 1 /\ run.hist[1] = <<"teardown", "oserror">>

\* The line main() prints for the failure h.
FatalLine(h) ==
    CASE h[1] = "teardown" -> Msg("Error removing old virtual environment", h[2])
      [] h[1] \in {"create", "create_wait"} ->
            Msg("Failed to create virtual environment. Exiting.", "")
      [] h[1] \in {"upgrade", "upgrade_wait"} -> Msg("Failed to upgrade pip. Exiting.", "")
      [] h[1] \in {"verify", "verify_wait"} ->
            Msg("Qiskit test failed. Please review the output above for errors.", "")
      [] h[1] = "handoff" -> Msg("Error launching interactive Python interpreter", h[2])
      [] OTHER -> Msg("Error installing", packages_to_install[run.i])

GuidanceLine == Msg("activate", ActivateHint(run.plat))

(***************************************************************************)
(* Properties                                                              *)
(***************************************************************************)

\* C1: the packages of the fixed list are installed in list order, and the
\* run halts with a non-zero exit at the first package whose install
\* fails: no later package is attempted, the verification never runs and
\* the packages installed before the failure stay in the environment.
C1_InstallInOrderHaltAtFirstFailure ==
    /\ Len(InstallsAttempted) <= Len(packages_to_install)
    /\ \A k \in 1..Len(InstallsAttempted) :
          InstallsAttempted[k] = InstallCmd(run.plat, packages_to_install[k])
    /\ \A k \in 1..Len(packages_to_install) :
          InstallFailed(k) =>
             /\ run.pc = "done"
             /\ run.exitCode = 1
             /\ Len(InstallsAttempted) = k
             /\ VerifyCmd(run.plat) \notin Range(run.cmds)
             /\ run.env = PrefixSet(k - 1)

C1_Witness ==
    /\ InstallFailed(2)
    /\ run.pc = "done"
    /\ run.env = {"qiskit"}

\* C2: a failed cache purge, or no pip on the search path, never halts
\* the run (a run whose teardown did not fail always gets to the
\* environment creation), and the failure of any other step halts it at
\* once with a non-zero exit.
C2_OnlyPurgeFailureTolerated ==
    /\ (run.hist # <<>> /\ Last(run.hist)[1] \in PurgeSteps /\ Last(run.hist)[2] # "spawned")
          => run.pc = "create" /\ run.exitCode = Running
    /\ (run.pc = "done" /\ ~TeardownFailed) => VenvCmd \in Range(run.cmds)
    /\ \A k \in DOMAIN run.hist :
          StepFailure(run.hist[k]) =>
             /\ k = Len(run.hist)
             /\ run.pc = "done"
             /\ run.exitCode = 1

C2_Witness ==
    /\ <<"purge", "notfound">> \in Range(run.hist)
    /\ <<"verify_wait", "nonzero">> \in Range(run.hist)
    /\ run.pc = "done"

\* C3: a run that ends without a failed step ends with exit code 0, a
\* failed fatal step gives a non-zero exit code, and whenever the exit
\* code is non-zero the last line printed is the one naming the step that
\* failed.
C3_ExitCodeAndMessage ==
    /\ (run.pc = "done" /\ \A h \in Range(run.hist) : ~StepFailure(h)) => run.exitCode = 0
    /\ (\E h \in Range(run.hist) : StepFailure(h)) => run.exitCode = 1
    /\ run.exitCode \notin {Running, 0} =>
          /\ StepFailure(Last(run.hist))
          /\ Last(run.out) = FatalLine(Last(run.hist))
    /\ run.pc = "done" <=> run.exitCode # Running

C3_Witness ==
    /\ run.exitCode = 1
    /\ Last(run.hist) = <<"upgrade_wait", "nonzero">>

\* C4 as claimed: run_command returns true exactly when the child exits
\* with code 0 or the check flag is disabled, whatever the outcome of the
\* invocation.
C4_TrueWheneverCheckDisabled ==
    \A c \in Range(run.calls) : c.ret = (c.outcome = "exit0" \/ ~c.check)

\* C4 (amended): run_command returns true exactly when the child ran and
\* exited with code 0, or ran and exited non-zero with the check flag
\* disabled; it returns false when the executable is not found or the
\* invocation raises another exception, with the check flag on or off.
C4_ReturnValue ==
    \A c \in Range(run.calls) :
        c.ret = (c.outcome = "exit0" \/ (~c.check /\ c.outcome = "nonzero"))

C4_Witness ==
    \E c \in Range(run.calls) : ~c.check /\ c.outcome = "notfound" /\ ~c.ret

\* C5: no failure of an invocation leaves run_command as an exception: a
\* non-zero exit under check, a missing executable and any other
\* exception each end in a printed diagnostic and the return value false,
\* and main() never ends by an exception out of run_command.
C5_RunCommandNeverRaises ==
    /\ \A c \in Range(run.calls) :
          /\ c.raised = "none"
          /\ (c.outcome = "nonzero" /\ c.check) =>
                ~c.ret /\ Msg("Error executing command", c.command) \in Range(c.printed)
          /\ c.outcome = "notfound" =>
                ~c.ret /\ Msg("Command not found", "") \in Range(c.printed)
          /\ c.outcome = "oserror" =>
                ~c.ret /\ Msg("An unexpected error occurred", "") \in Range(c.printed)
    /\ \A m \in Range(run.out) : m[1] # "Traceback"

C5_Witness ==
    \E c \in Range(run.calls) : c.outcome = "oserror" /\ c.check /\ ~c.ret

\* C6: from the end of the teardown until the environment creation is
\* started the environment directory does not exist, also when it existed
\* at the start of the run, and the environment created holds nothing of
\* an earlier one.
C6_AbsentBetweenTeardownAndCreate ==
    /\ run.pc \in {"purge", "purge_wait", "create"} => ~run.dirExists /\ run.env = {}
    /\ run.pc \in {"create_wait", "upgrade"} => run.env = {}

C6_Witness ==
    /\ run.hist # <<>>
    /\ run.hist[1] = <<"teardown", "removed">>
    /\ run.pc = "create"

\* C7: when the removal of the environment directory fails the process
\* exits non-zero at once: pip is not looked for and no command is run.
C7_TeardownFailureIsFatal ==
    TeardownFailed =>
        /\ run.pc = "done"
        /\ run.exitCode = 1
        /\ run.cmds = <<>>
        /\ run.calls = <<>>
        /\ Len(run.hist) = 1
        /\ run.child = NoChild

C7_Witness == TeardownFailed /\ run.dirExists

\* C8 as claimed: when pip is found and its cache purge exits non-zero,
\* the run prints the purge warning and not the success line, and goes on
\* to the environment creation.
C8_PurgeFailureWarned ==
    <<"purge_wait", "nonzero">> \in Range(run.hist) =>
        /\ Msg("Warning: Could not purge pip cache.", "") \in Range(run.out)
        /\ Msg("Pip cache purged successfully (or no cache to purge).", "") \notin Range(run.out)
        /\ Last(run.hist) = <<"purge_wait", "nonzero">> => run.pc = "create"

\* C9: when the interactive interpreter cannot be launched the failure is
\* printed, the guidance is not, and the process exits non-zero; when the
\* session exits cleanly the run goes on, prints the guidance and exits 0.
C9_HandoffLaunchFailureFatal ==
    /\ \A o \in {"notfound", "oserror"} :
          <<"handoff", o>> \in Range(run.hist) =>
             /\ run.pc = "done"
             /\ run.exitCode = 1
             /\ Last(run.out) = Msg("Error launching interactive Python interpreter", o)
             /\ GuidanceLine \notin Range(run.out)
    /\ <<"handoff_wait", "exit0">> \in Range(run.hist) =>
          /\ run.pc \in {"guidance", "done"}
          /\ run.pc = "guidance" => run.exitCode = Running /\ GuidanceLine \notin Range(run.out)
          /\ run.pc = "done" => run.exitCode = 0 /\ Last(run.out) = GuidanceLine

C9_Witness ==
    /\ <<"handoff", "notfound">> \in Range(run.hist)
    /\ run.exitCode = 1

\* C10: fed the same command outcomes, a run whose teardown removed the
\* directory and a run whose teardown was skipped take the same steps
\* after the teardown, run the same commands, and, once both have ended,
\* have the same exit code and leave the same environment.
C10_SkipLikeRemoved ==
    (runA.hist # <<>> /\ runA.hist[1] = <<"teardown", "removed">> /\ runB.hist # <<>>) =>
        /\ \/ IsPrefix(Tail(runA.hist), Tail(runB.hist))
           \/ IsPrefix(Tail(runB.hist), Tail(runA.hist))
        /\ IsPrefix(runA.cmds, runB.cmds) \/ IsPrefix(runB.cmds, runA.cmds)
        /\ (runA.pc = "done" /\ runB.pc = "done") =>
              /\ Tail(runA.hist) = Tail(runB.hist)
              /\ runA.cmds = runB.cmds
              /\ runA.exitCode = runB.exitCode
              /\ runA.env = runB.env
              /\ runA.dirExists = runB.dirExists

C10_Witness ==
    /\ runA.hist # <<>> /\ runA.hist[1] = <<"teardown", "removed">>
    /\ runB.hist # <<>> /\ runB.hist[1] = <<"teardown", "absent">>
    /\ runA.pc = "done" /\ runB.pc = "done"
    /\ runA.exitCode = 0

(***************************************************************************)
(* SpecTwice: the script is run, and once that run has ended it is run    *)
(* again on the same machine: the second run (runB) starts on the         *)
(* platform and the environment directory the first run (runA) left.      *)
(* Both runs get their inputs freely.                                     *)
(***************************************************************************)

NotStarted == [Idle EXCEPT !.pc = "not_started"]

InitTwice ==
    /\ \E plat \in Platforms :
          \/ runA = StartState(plat, FALSE, {})
          \/ \E env \in PriorEnvs : runA = StartState(plat, TRUE, env)
    /\ runB = NotStarted
    /\ run = Idle

FirstRunStep ==
    /\ \E o \in Inputs(runA) : runA' = MainStep(runA, o)
    /\ UNCHANGED <<run, runB>>

StartSecondRun ==
    /\ runA.pc = "done"
    /\ runB.pc = "not_started"
    /\ runB' = StartState(runA.plat, runA.dirExists, runA.env)
    /\ UNCHANGED <<run, runA>>

SecondRunStep ==
    /\ \E o \in Inputs(runB) : runB' = MainStep(runB, o)
    /\ UNCHANGED <<run, runA>>

NextTwice == FirstRunStep \/ StartSecondRun \/ SecondRunStep

SpecTwice == InitTwice /\ [][NextTwice]_vars

(***************************************************************************)
(* SpecProg: one run in which main() takes each of its own steps as soon  *)
(* as it can (it is the only thread of the process), while nothing is     *)
(* assumed about when, or whether, a started child exits.                 *)
(***************************************************************************)

ProgStep ==
    \/ DoTeardown
    \/ DoPurgeStart
    \/ DoCreateStart
    \/ DoUpgradeStart
    \/ DoInstallStart
    \/ DoVerifyStart
    \/ DoHandoffStart
    \/ DoGuidance

SpecProg == Init /\ [][Next]_vars /\ WF_vars(ProgStep)

(***************************************************************************)
(* Properties, continued                                                   *)
(***************************************************************************)

AllPackages == PrefixSet(Len(packages_to_install))

\* The second run was given the command outcomes of the first.
SameOutcomesTwice == runB.hist # <<>> /\ Tail(runB.hist) = Tail(runA.hist)

\* C11: when the first run succeeds and the second run is given the same
\* command outcomes, the environment after the second run holds the same
\* packages as after the first: the packages of the list and nothing
\* added to what the first run left.
C11_SecondRunSameEnvironment ==
    (runA.pc = "done" /\ runA.exitCode = 0 /\ runB.pc = "done" /\ SameOutcomesTwice) =>
        /\ runB.exitCode = 0
        /\ runB.dirExists /\ runA.dirExists
        /\ runB.env = runA.env
        /\ runB.env = AllPackages

C11_Witness ==
    /\ runA.exitCode = 0
    /\ runB.pc = "done"
    /\ SameOutcomesTwice
    /\ runB.hist[1] = <<"teardown", "removed">>
    /\ runA.hist[1] = <<"teardown", "removed">>

\* The children started and the children that have exited, by the events
\* of the run.
Started == Cardinality({k \in DOMAIN run.hist : run.hist[k][2] = "spawned"})

Exited == Cardinality({k \in DOMAIN run.hist : run.hist[k][2] \in ExitOutcomes})

WaitSteps ==
    {"purge_wait", "create_wait", "upgrade_wait", "install_wait", "verify_wait", "handoff_wait"}

\* C12: at every point of a run at most one child started by the program
\* has not exited yet, main() is then blocked on that child, and a
\* command is only ever started when no child is running.
C12_OneChildAtATime ==
    /\ Started - Exited \in {0, 1}
    /\ Started - Exited = 1 <=> run.child # NoChild
    /\ run.child # NoChild <=> run.pc \in WaitSteps
    /\ run.child # NoChild => run.child = Last(run.cmds)

C12_Witness ==
    /\ run.pc = "install_wait"
    /\ run.i = 2
    /\ Started = 4
    /\ Exited = 3

\* C13: no command is invoked twice in a run, and once a step has failed
\* fatally no command is invoked any more: the failed command is the last
\* one invoked.
C13_NoRetries ==
    /\ \A j, k \in DOMAIN run.cmds : j # k => run.cmds[j] # run.cmds[k]
    /\ Len(run.calls) <= Len(run.cmds)
    /\ \A k \in DOMAIN run.calls :
          (~run.calls[k].ret /\ run.calls[k].command # PurgeCmd) =>
             /\ k = Len(run.calls)
             /\ Last(run.cmds) = run.calls[k].command
             /\ run.pc = "done"
    /\ run.pc = "done" => run.child = NoChild

C13_Witness ==
    /\ run.calls # <<>>
    /\ Last(run.calls).command = UpgradeCmd(run.plat)
    /\ ~Last(run.calls).ret
    /\ Len(run.cmds) = 3

\* C14: once the interactive interpreter has been launched, the run ends
\* with the guidance and exit code 0 whatever the session's exit code is;
\* at this step only a launch that raised gives a non-zero exit.
C14_SessionStatusIgnored ==
    /\ <<"handoff", "spawned">> \in Range(run.hist) => run.exitCode # 1
    /\ \A o \in ExitOutcomes :
          <<"handoff_wait", o>> \in Range(run.hist) =>
             /\ run.pc \in {"guidance", "done"}
             /\ run.pc = "done" => run.exitCode = 0 /\ Last(run.out) = GuidanceLine
             /\ \A m \in Range(run.out) : m[1] # "Error launching interactive Python interpreter"
    /\ (run.exitCode = 1 /\ Last(run.hist)[1] \in {"handoff", "handoff_wait"}) =>
          Last(run.hist) \in {<<"handoff", "notfound">>, <<"handoff", "oserror">>}

C14_Witness ==
    /\ <<"handoff_wait", "nonzero">> \in Range(run.hist)
    /\ run.pc = "done"
    /\ run.exitCode = 0

\* C15: every run either ends (exit 0 after the guidance, or non-zero at
\* a fatal step) or is from some point on blocked for ever on one child
\* that never exits; so a run in which every child exits terminates.
C15_TerminatesUnlessChildHangs ==
    \/ <>(run.pc = "done" /\ run.exitCode \in {0, 1})
    \/ <>[](run.child # NoChild /\ run.pc \in WaitSteps)

C15_Witness ==
    /\ run.pc = "done"
    /\ run.exitCode = 0
    /\ Exited = 9

====
